---- MODULE Spec2Model ----
(***************************************************************************)
(* cryoforge: the resumable batch pipeline of generatebulk.generate_items  *)
(* (ChunkedFileHandler, S3ProgressTracker, LocalProgressTracker) and the   *)
(* catalog upsert post_or_put of ingestbulk / ingestcoiled.                *)
(*                                                                         *)
(* Files are modelled by their content: a chunk or consolidated file is a  *)
(* sequence of records, a store is a function whose DOMAIN is the set of   *)
(* files that exist.  A record is <<identifier, run>>: the identifier is   *)
(* what the program serialises, the run number is a history tag that lets  *)
(* a property tell the records of one run from those an earlier run left   *)
(* in the same append-only file.                                           *)
(***************************************************************************)
EXTENDS Integers, Sequences, FiniteSets, TLC

\* ------------------------------------------------------------- bounds
NumIds == 5
BatchSize == 2
MaxRuns == 2
MaxFaults == 1

\* ---------------------------------------------------------- constants
NoBatch == -1

Region == "P"
Ids == 1 .. NumIds
Years == {2020, 2021}
\* The time-key of each identifier's record (mid_datetime[:4]): the listings
\* tried are those whose time-key changes at most twice along the listing.
YearMaps == {m \in [Ids -> Years] : m[1] = 2020 /\ Cardinality({i \in 2 .. NumIds : m[i] # m[i - 1]}) <= 2}

\* ------------------------------------------------------------ helpers
EmptyMap == [x \in {} |-> 0]

Put(f, k, v) == [x \in (DOMAIN f) \cup {k} |-> IF x = k THEN v ELSE f[x]]

Remove(f, S) == [x \in (DOMAIN f) \ S |-> f[x]]

FileOr(f, k) == IF k \in DOMAIN f THEN f[k] ELSE << >>

Range(s) == {s[i] : i \in DOMAIN s}

Min(a, b) == IF a < b THEN a ELSE b

\* ------------------------------------------------- source enumeration
\* list_s3_objects(region, pattern, batch_size): the listing cut into
\* batches of batch_size identifiers, the last one possibly shorter, in
\* the same order on every run.
NumBatches == (NumIds + BatchSize - 1) \div BatchSize

Batch(p) == [i \in 1 .. (Min((p + 1) * BatchSize, NumIds) - p * BatchSize) |-> p * BatchSize + i]

\* ----------------------------------------------------- progress store
\* The persisted document: missing, a readable mapping, or unreadable.
MissingDoc == [state |-> "missing", map |-> EmptyMap]

CorruptDoc == [state |-> "corrupt", map |-> EmptyMap]

\* What the tracker gets when exists, open or read raises on the store.
ReadRaised == [state |-> "raised", map |-> EmptyMap]

OkDoc(m) == [state |-> "ok", map |-> m]

\* _load_progress of both trackers: {} when the file is missing or when
\* reading or parsing it raises.
LoadProgress(doc) == IF doc.state = "ok" THEN doc.map ELSE EmptyMap

\* Mutant: a region without entry is taken as having completed batch 0.
get_last_batch_zero(prog, region) == IF region \in DOMAIN prog THEN prog[region] ELSE 0

\* get_last_batch: self.progress.get(region, -1)
get_last_batch(prog, region) == IF region \in DOMAIN prog THEN prog[region] ELSE NoBatch

VARIABLES
    \* storage that outlives a run
    localChunks, s3Chunks, localCons, s3Cons, localDoc, s3Doc,
    \* inputs of the run
    yearOf, sync, reingest,
    \* the run's own state
    pc, progress, last_batch, batch_number, pos, tracker, trackerOrder,
    current_batch_chunks, features, consIdx,
    \* history
    run, faults, kinds, hist,
    \* post_or_put: the arguments and the call's state
    ups,
    \* the process-wide shutdown flag
    shutdown_requested,
    \* two drivers on one partition
    drivers, sharedDoc, persistLog,
    \* count_s3_files: the cache file, its temporary and the run's state
    cnt,
    \* ingest_coiled_async: the arguments and the run's state
    ing

storeVars == <<localChunks, s3Chunks, localCons, s3Cons, localDoc, s3Doc>>
inputVars == <<yearOf, sync, reingest>>
loopVars == <<progress, last_batch, batch_number, pos, tracker, trackerOrder, current_batch_chunks, features, consIdx>>
upsertVars == <<ups>>
signalVars == <<shutdown_requested>>
driverVars == <<drivers, sharedDoc, persistLog>>
countVars == <<cnt>>
ingestVars == <<ing>>
extraVars == <<signalVars, driverVars, countVars, ingestVars>>
vars == <<storeVars, inputVars, pc, loopVars, run, faults, kinds, hist, upsertVars, extraVars>>


\* --------------------------------------------------- post_or_put state
\* The fields of ups.
upc == ups.upc                  \* where the call stands
url == ups.url
recId == ups.recId              \* data["id"]
requests == ups.requests        \* the requests sent, in order
status == ups.status            \* r.status_code
outcome == ups.outcome          \* returned or raised

\* ------------------------------------------------ count_s3_files state
\* The fields of cnt, under the names count.py gives them.
cacheFile == cnt.cacheFile      \* the lines of the cache file
newFile == cnt.newFile          \* the temporary file of the rebuild
cpc == cnt.cpc                  \* where the driver stands
crun == cnt.crun                \* calls so far
all_dirs == cnt.all_dirs
cache == cnt.cache
to_process == cnt.to_process
futures == cnt.futures
results == cnt.results
chist == cnt.chist              \* history of the call

\* -------------------------------------------- ingest_coiled_async state
\* The fields of ing, under the names ingestcoiledv2.py gives them.
ipc == ing.ipc                  \* where the task stands
task_id == ing.task_id
page == ing.page                \* the URLs of the page file
workers == ing.workers
chunk_size == ing.chunk_size
batch_size == ing.batch_size
ingest == ing.ingest
url_chunks == ing.url_chunks
chunkIdx == ing.chunkIdx        \* the chunk being processed
batchAt == ing.batchAt          \* i of line 53
metadata_items == ing.metadata_items
generated == ing.generated      \* what became of each URL handed to the generator
upserted == ing.upserted        \* what post_or_put_async returned for each item
returned == ing.returned


\* ------------------------------------------------------------ history
\* What the run has done so far; read by the properties only.
NewHist(prev) ==
    [ skipped |-> {},            \* positions skipped as already done
      processed |-> << >>,       \* positions dispatched, in order
      ckptLog |-> << >>,         \* arguments of update, in order
      written |-> [y \in Years |-> << >>],  \* records appended, per time-key
      batchRecs |-> << >>,       \* records appended by the batch in flight
      rotations |-> 0,           \* rotate_chunks calls
      genFailed |-> {},          \* identifiers whose generation raised
      failedFirst |-> NoBatch,   \* first position that raised before its checkpoint
      prevFailedFirst |-> prev.failedFirst,
      prevCrashed |-> FALSE,
      prevSync |-> FALSE,
      loadFailed |-> FALSE,      \* the stored document was missing, unreadable or unparsable
      firstTouch |-> [y \in Years |-> NoBatch],  \* rotations done when the key was first seen
      doneEver |-> prev.doneEver ] \* positions written and checkpointed since the last reset

Hist0 ==
    [ skipped |-> {}, processed |-> << >>, ckptLog |-> << >>,
      written |-> [y \in Years |-> << >>], batchRecs |-> << >>, rotations |-> 0,
      genFailed |-> {}, failedFirst |-> NoBatch, prevFailedFirst |-> NoBatch,
      prevCrashed |-> FALSE, prevSync |-> FALSE, loadFailed |-> FALSE, firstTouch |-> [y \in Years |-> NoBatch],
      doneEver |-> {} ]

\* A failure of the environment (a raised exception, a killed process): at
\* most MaxFaults of them in one behaviour.
Fault(kind) ==
    /\ faults < MaxFaults
    /\ faults' = faults + 1
    /\ kinds' = kinds \cup {kind}

NoFault == UNCHANGED <<faults, kinds>>

\* ---------------------------------------------------- post_or_put idle
\* post_or_put has not been called.
UpsertIdle == ups = << >>

\* count_s3_files has not been called.
CountIdle == cnt = << >>

\* ingest_coiled_async has not been called.
IngestIdle == ing = << >>

\* No signal was delivered, no second driver runs, and neither
\* count_s3_files nor ingest_coiled_async has been called.
ExtraIdle ==
    /\ shutdown_requested = FALSE
    /\ drivers = << >>
    /\ sharedDoc = MissingDoc
    /\ persistLog = << >>
    /\ CountIdle
    /\ IngestIdle

\* --------------------------------------------------------------- Init
Init ==
    /\ localChunks = EmptyMap
    /\ s3Chunks = EmptyMap
    /\ localCons = EmptyMap
    /\ s3Cons = EmptyMap
    /\ localDoc = MissingDoc
    /\ s3Doc = MissingDoc
    /\ yearOf \in YearMaps
    /\ sync = FALSE
    /\ reingest = FALSE
    /\ pc = "idle"
    /\ progress = EmptyMap
    /\ last_batch = NoBatch
    /\ batch_number = 0
    /\ pos = 0
    /\ tracker = EmptyMap
    /\ trackerOrder = << >>
    /\ current_batch_chunks = {}
    /\ features = << >>
    /\ consIdx = 0
    /\ run = 0
    /\ faults = 0
    /\ kinds = {}
    /\ hist = Hist0
    /\ UpsertIdle
    /\ ExtraIdle

\* ------------------------------------------------- generate_items: start
\* Lines 204-227: a new process builds its ChunkedFileHandler and its
\* progress tracker (S3ProgressTracker when sync, else LocalProgressTracker),
\* which loads the stored document (the read may raise: the tracker then
\* starts with {}), and reads the checkpoint.
Begin ==
    /\ pc \in {"idle", "crashed", "done"}
    /\ run < MaxRuns
    /\ run' = run + 1
    /\ sync' \in BOOLEAN
    /\ reingest' \in BOOLEAN
    /\ LET doc == IF sync' THEN s3Doc ELSE localDoc
           h == [NewHist(hist) EXCEPT !.prevCrashed = (pc = "crashed"), !.prevSync = sync]
       IN \/ /\ progress' = LoadProgress(doc)
             /\ hist' = [h EXCEPT !.loadFailed = (doc.state # "ok")]
             /\ NoFault
          \/ /\ doc.state = "ok"
             /\ progress' = LoadProgress(ReadRaised)
             /\ hist' = [h EXCEPT !.loadFailed = TRUE]
             /\ Fault("load")
    /\ last_batch' = get_last_batch(progress', Region)
    /\ tracker' = EmptyMap
    /\ trackerOrder' = << >>
    /\ current_batch_chunks' = {}
    /\ features' = << >>
    /\ batch_number' = 0
    /\ pos' = 0
    /\ consIdx' = 0
    /\ pc' = "init"
    \* a new process: no signal has been handled in it
    /\ shutdown_requested' = FALSE
    /\ UNCHANGED <<storeVars, yearOf, upsertVars, driverVars, countVars, ingestVars>>

\* Chunk files in the order of their names, {year}-chunk{n:04d}.ndjson.
ChunkBefore(c, d) == c[1] < d[1] \/ (c[1] = d[1] /\ c[2] < d[2])

\* Lines 230-261: the reingest reset.
Reingest ==
    /\ pc = "init"
    /\ reingest
    /\ last_batch' = NoBatch
    /\ progress' = EmptyMap
    /\ IF sync
       THEN /\ UNCHANGED localDoc
            \* lines 236-237; _sync_to_s3 logs a failed put and goes on
            /\ \/ /\ s3Doc' = OkDoc(EmptyMap)
                  \* lines 239-246; an rm that raises ends the clean-up loop
                  /\ \/ /\ s3Chunks' = EmptyMap
                        /\ NoFault
                     \/ \E c \in DOMAIN s3Chunks :
                           /\ s3Chunks' = Remove(s3Chunks, {d \in DOMAIN s3Chunks : ChunkBefore(d, c)})
                           /\ Fault("rm")
               \/ /\ UNCHANGED s3Doc
                  /\ s3Chunks' = EmptyMap
                  /\ Fault("persist")
       ELSE \* lines 249-250
            /\ localDoc' = MissingDoc
            /\ UNCHANGED <<s3Doc, s3Chunks>>
            /\ NoFault
    \* lines 253-261
    /\ localChunks' = EmptyMap
    /\ localCons' = EmptyMap
    /\ hist' = [hist EXCEPT !.doneEver = {}]
    /\ pc' = "loop"
    /\ UNCHANGED <<s3Cons, inputVars, batch_number, pos, tracker, trackerOrder,
                   current_batch_chunks, features, consIdx, run, upsertVars, extraVars>>

\* Lines 262-263.
NoReingest ==
    /\ pc = "init"
    /\ ~reingest
    /\ last_batch' = get_last_batch(progress, Region)
    /\ pc' = "loop"
    /\ NoFault
    /\ UNCHANGED <<storeVars, inputVars, progress, batch_number, pos, tracker, trackerOrder,
                   current_batch_chunks, features, consIdx, run, hist, upsertVars, extraVars>>

\* ------------------------------------------------- generate_items: loop
\* Mutant: the guard of line 276 dropped, every batch is reprocessed.
SkipsNever(bn, last, re) == FALSE

\* Line 276: the batch is taken as already done.
Skips(bn, last, re) == bn <= last /\ ~re

\* Lines 276-282.
SkipBatch ==
    /\ pc = "loop"
    /\ pos < NumBatches
    /\ Skips(batch_number, last_batch, reingest)
    /\ batch_number' = batch_number + 1
    /\ pos' = pos + 1
    /\ hist' = [hist EXCEPT !.skipped = @ \cup {pos}]
    /\ NoFault
    /\ UNCHANGED <<storeVars, inputVars, pc, progress, last_batch, tracker, trackerOrder,
                   current_batch_chunks, features, consIdx, run, upsertVars, extraVars>>

\* Lines 298-300: the exception that escaped the batch is logged and the
\* loop goes on with the next batch.
BatchFailed(h) ==
    /\ batch_number' = batch_number + 1
    /\ pos' = pos + 1
    /\ pc' = "loop"
    /\ features' = << >>
    /\ hist' = [h EXCEPT !.failedFirst = IF @ = NoBatch THEN pos ELSE @,
                         !.batchRecs = << >>]

\* Mutant: the records in the order in which the workers finished them.
gather_as_completed(batch, finish, r) == [k \in DOMAIN batch |-> <<batch[finish[k]], r>>]

\* Line 288, client.gather(futures): the result of each future at the place
\* of the future in the list, whatever the order finish in which the workers
\* completed them (finish[k] is the place of the k-th future to complete).
gather(batch, finish, r) == [i \in DOMAIN batch |-> <<batch[i], r>>]

\* Lines 285-288: every identifier of the batch is submitted and gather
\* waits for all of them, which the workers finish in any order; it returns
\* the records in the order of the batch, or raises the exception of an
\* identifier whose generation raised (generate_stac_metadata, lines 16-18,
\* catches nothing).
Gather ==
    /\ pc = "loop"
    /\ pos < NumBatches
    /\ ~Skips(batch_number, last_batch, reingest)
    /\ LET h == [hist EXCEPT !.processed = Append(@, pos), !.batchRecs = << >>]
       IN \/ /\ \E finish \in Permutations(DOMAIN Batch(pos)) :
                   features' = gather(Batch(pos), finish, run)
             /\ pc' = "gathered"
             /\ hist' = h
             /\ NoFault
             /\ UNCHANGED <<batch_number, pos>>
          \/ \E f \in Range(Batch(pos)) :
                /\ Fault("generate")
                /\ BatchFailed([h EXCEPT !.genFailed = @ \cup {f}])
    /\ UNCHANGED <<storeVars, inputVars, progress, last_batch, tracker, trackerOrder,
                   current_batch_chunks, consIdx, run, upsertVars, extraVars>>


\* ------------------------------------------------- ChunkedFileHandler
\* Mutant: a new time-key gets its counter but is left out of the keys the
\* consolidation goes through.
write_feature_unlisted(w, rec, ok) ==
    LET year == yearOf[rec[1]]
        seen == year \in DOMAIN w.tracker
        chunk_num == IF seen THEN w.tracker[year] ELSE 0
        key == <<year, chunk_num>>
    IN [ tracker |-> IF seen THEN w.tracker ELSE Put(w.tracker, year, 0),
         order |-> w.order,
         cbc |-> w.cbc \cup {key},
         chunks |-> IF ok THEN Put(w.chunks, key, Append(FileOr(w.chunks, key), rec))
                    ELSE w.chunks ]

\* write_feature, lines 38-45, on the writer w = [tracker, order, cbc, chunks]:
\* the time-key of the record, the current sequence number of that key (the
\* defaultdict creates the entry 0 for a key it has not seen), the pair marked
\* as touched, then the append to the chunk file.  ok = FALSE is an open or
\* write that raises: nothing is appended.
write_feature(w, rec, ok) ==
    LET year == yearOf[rec[1]]
        seen == year \in DOMAIN w.tracker
        chunk_num == IF seen THEN w.tracker[year] ELSE 0
        key == <<year, chunk_num>>
    IN [ tracker |-> IF seen THEN w.tracker ELSE Put(w.tracker, year, 0),
         order |-> IF seen THEN w.order ELSE Append(w.order, year),
         cbc |-> w.cbc \cup {key},
         chunks |-> IF ok THEN Put(w.chunks, key, Append(FileOr(w.chunks, key), rec))
                    ELSE w.chunks ]

\* Lines 290-291: the records are written in the order gather returned them;
\* failAt > 0 is the position of the write that raises.
RECURSIVE WriteFrom(_, _, _, _)
WriteFrom(w, feats, k, failAt) ==
    IF k > Len(feats) THEN w
    ELSE IF k = failAt THEN write_feature(w, feats[k], FALSE)
    ELSE WriteFrom(write_feature(w, feats[k], TRUE), feats, k + 1, failAt)

\* History of the writes: the records appended, per time-key and for the batch.
RECURSIVE LogWrites(_, _, _, _)
LogWrites(h, feats, k, upto) ==
    IF k > upto THEN h
    ELSE LogWrites([h EXCEPT !.written[yearOf[feats[k][1]]] = Append(@, feats[k]),
                             !.batchRecs = Append(@, feats[k])],
                   feats, k + 1, upto)

LogTouch(h, newTracker) ==
    [h EXCEPT !.firstTouch = [y \in Years |->
        IF y \in DOMAIN newTracker /\ y \notin DOMAIN tracker THEN h.rotations ELSE @[y]]]

Writer == [tracker |-> tracker, order |-> trackerOrder, cbc |-> current_batch_chunks,
           chunks |-> localChunks]

WriteFeatures ==
    /\ pc = "gathered"
    /\ \/ LET w == WriteFrom(Writer, features, 1, 0)
          IN /\ tracker' = w.tracker
             /\ trackerOrder' = w.order
             /\ current_batch_chunks' = w.cbc
             /\ localChunks' = w.chunks
             /\ hist' = LogTouch(LogWrites(hist, features, 1, Len(features)), w.tracker)
             /\ pc' = "written"
             /\ NoFault
             /\ UNCHANGED <<batch_number, pos, features>>
       \/ \E failAt \in DOMAIN features :
             LET w == WriteFrom(Writer, features, 1, failAt)
             IN /\ Fault("write")
                /\ tracker' = w.tracker
                /\ trackerOrder' = w.order
                /\ current_batch_chunks' = w.cbc
                /\ localChunks' = w.chunks
                /\ BatchFailed(LogTouch(LogWrites(hist, features, 1, failAt - 1), w.tracker))
    /\ UNCHANGED <<s3Chunks, localCons, s3Cons, localDoc, s3Doc, inputVars, progress,
                   last_batch, consIdx, run, upsertVars, extraVars>>

\* upload_batch_chunks with _upload_chunk, lines 52-69: without sync the
\* touched set is cleared; with sync every touched chunk is put to the remote
\* store, a put that raises (failed: the injected ones; or the local file does
\* not exist) is logged, and the touched set is cleared.
upload_batch_chunks(remote, local, cbc, doSync, failed) ==
    IF ~doSync THEN remote
    ELSE LET sent == {c \in cbc : c \notin failed /\ c \in DOMAIN local}
         IN [c \in (DOMAIN remote) \cup sent |-> IF c \in sent THEN local[c] ELSE remote[c]]

Upload ==
    /\ pc = "written"
    /\ \/ /\ s3Chunks' = upload_batch_chunks(s3Chunks, localChunks, current_batch_chunks, sync, {})
          /\ NoFault
       \/ /\ sync
          /\ \E c \in current_batch_chunks :
                /\ s3Chunks' = upload_batch_chunks(s3Chunks, localChunks, current_batch_chunks, sync, {c})
                /\ Fault("upload")
    /\ current_batch_chunks' = {}
    /\ pc' = "uploaded"
    /\ UNCHANGED <<localChunks, localCons, s3Cons, localDoc, s3Doc, inputVars, progress,
                   last_batch, batch_number, pos, tracker, trackerOrder, features, consIdx,
                   run, hist, upsertVars, extraVars>>

\* ---------------------------------------------------- progress trackers
\* update, lines 156-159 and 191-194: the entry of the region is set in memory.
update(prog, region, batch) == Put(prog, region, batch)

\* Mutant: update is called as soon as gather has returned.
UpdateAtGathered == "gathered"

\* Lines 293-294: update is called when upload_batch_chunks has returned.
UpdateAt == "uploaded"

\* Line 294, with _sync_to_s3 (lines 161-170) or _save_local (lines 196-202):
\* the whole mapping is written; a failure is logged.  A remote put that fails
\* leaves the old object; a local write that fails leaves the old file (open
\* raised) or a truncated one (the write raised after open(..., 'w')).
Update ==
    /\ pc = UpdateAt
    /\ progress' = update(progress, Region, batch_number)
    /\ \/ /\ IF sync
             THEN s3Doc' = OkDoc(progress') /\ UNCHANGED localDoc
             ELSE localDoc' = OkDoc(progress') /\ UNCHANGED s3Doc
          /\ NoFault
       \/ /\ Fault("persist")
          /\ \/ UNCHANGED <<localDoc, s3Doc>>
             \/ /\ ~sync
                /\ localDoc' = CorruptDoc
                /\ UNCHANGED s3Doc
    /\ hist' = [hist EXCEPT !.ckptLog = Append(@, batch_number),
                            !.doneEver = @ \cup {pos}]
    /\ pc' = "updated"
    /\ UNCHANGED <<localChunks, s3Chunks, localCons, s3Cons, inputVars, last_batch,
                   batch_number, pos, tracker, trackerOrder, current_batch_chunks,
                   features, consIdx, run, upsertVars, extraVars>>

\* Mutant: only the lowest time-key is moved to its next chunk.
rotate_chunks_lowest(t) ==
    [y \in DOMAIN t |-> IF \A z \in DOMAIN t : y <= z THEN t[y] + 1 ELSE t[y]]

\* rotate_chunks, lines 47-50.
rotate_chunks(t) == [y \in DOMAIN t |-> t[y] + 1]

\* Lines 295-300: rotation, the batch counter, then trim_memory; when
\* trim_memory raises, the handler of line 298 counts the batch once more.
Rotate ==
    /\ pc = "updated"
    /\ tracker' = rotate_chunks(tracker)
    /\ \/ /\ batch_number' = batch_number + 1
          /\ NoFault
       \/ /\ batch_number' = batch_number + 2
          /\ Fault("trim")
    /\ pos' = pos + 1
    /\ features' = << >>
    /\ hist' = [hist EXCEPT !.rotations = @ + 1, !.batchRecs = << >>]
    /\ pc' = "loop"
    /\ UNCHANGED <<storeVars, inputVars, progress, last_batch, trackerOrder,
                   current_batch_chunks, consIdx, run, upsertVars, extraVars>>


\* ----------------------------------------------------------- Consolidator
\* Lines 85-91 and 116-122: the lines of chunk n that reach the output.  A
\* chunk that does not exist gives none (the open raises); a chunk whose read
\* raises gives the unreadable[n] lines copied before the exception; any
\* other chunk gives all its lines.
ReadChunk(chunks, year, n, unreadable) ==
    IF <<year, n>> \notin DOMAIN chunks THEN << >>
    ELSE IF n \in DOMAIN unreadable THEN SubSeq(chunks[<<year, n>>], 1, unreadable[n])
    ELSE chunks[<<year, n>>]

\* The reads that can raise on the chunks numbered in bad: each after fewer
\* lines than the chunk has.
Cuts(chunks, year, bad) ==
    {cut \in [bad -> 0 .. (BatchSize * MaxRuns)] :
        \A n \in bad : cut[n] < Len(chunks[<<year, n>>])}

\* Mutant: the chunks read from the highest sequence number down.
RECURSIVE ConcatChunksDesc(_, _, _, _, _)
ConcatChunksDesc(chunks, year, n, count, unreadable) ==
    IF n >= count THEN << >>
    ELSE ConcatChunksDesc(chunks, year, n + 1, count, unreadable)
         \o ReadChunk(chunks, year, n, unreadable)

\* Mutant: the concatenation ends at the first chunk that is missing or
\* whose read raises.
RECURSIVE ConcatChunksStop(_, _, _, _, _)
ConcatChunksStop(chunks, year, n, count, unreadable) ==
    IF n >= count THEN << >>
    ELSE IF <<year, n>> \in DOMAIN chunks /\ n \notin DOMAIN unreadable
         THEN chunks[<<year, n>>] \o ConcatChunksStop(chunks, year, n + 1, count, unreadable)
         ELSE ReadChunk(chunks, year, n, unreadable)

\* Lines 83-91 and 114-122: the chunks n, n+1, ..., count-1 of the time-key are
\* read in this order and what is read of each is appended to the output; a
\* chunk that is missing is skipped, and so is the rest of a chunk whose read
\* raises.
RECURSIVE ConcatChunks(_, _, _, _, _)
ConcatChunks(chunks, year, n, count, unreadable) ==
    IF n >= count THEN << >>
    ELSE ReadChunk(chunks, year, n, unreadable)
         \o ConcatChunks(chunks, year, n + 1, count, unreadable)

\* Line 72.
chunk_count(t, year) == t[year] + 1

YearChunks(t, year) == {<<year, n>> : n \in 0 .. (chunk_count(t, year) - 1)}

\* consolidate_year(year, sync), lines 71-133: what one call does to the
\* stores.
ConsolidateYear(year) ==
    /\ LET count == chunk_count(tracker, year)
       IN IF sync
          THEN \* lines 78-109
               /\ \E bad \in SUBSET {n \in 0 .. (count - 1) : <<year, n>> \in DOMAIN s3Chunks} :
                  \E putOk \in BOOLEAN :
                  \E kept \in SUBSET (YearChunks(tracker, year) \cap DOMAIN s3Chunks) :
                     /\ Cardinality(bad) + Cardinality(kept) + (IF putOk THEN 0 ELSE 1) <= 1
                     /\ IF bad # {} THEN Fault("read")
                        ELSE IF ~putOk THEN Fault("put")
                        ELSE IF kept # {} THEN Fault("rm")
                        ELSE NoFault
                     /\ \E cut \in Cuts(s3Chunks, year, bad) :
                           s3Cons' = IF putOk
                                     THEN Put(s3Cons, year, ConcatChunks(s3Chunks, year, 0, count, cut))
                                     ELSE s3Cons
                     /\ s3Chunks' = Remove(s3Chunks, YearChunks(tracker, year) \ kept)
               /\ localCons' = Remove(localCons, {year})
          ELSE \* lines 112-124
               /\ \E bad \in SUBSET {n \in 0 .. (count - 1) : <<year, n>> \in DOMAIN localChunks} :
                     /\ Cardinality(bad) <= 1
                     /\ IF bad # {} THEN Fault("read") ELSE NoFault
                     /\ \E cut \in Cuts(localChunks, year, bad) :
                           localCons' = Put(localCons, year, ConcatChunks(localChunks, year, 0, count, cut))
               /\ UNCHANGED <<s3Cons, s3Chunks>>
    /\ UNCHANGED <<localChunks, localDoc, s3Doc>>

\* Lines 303-305: consolidate_year for the next time-key of
\* file_handler.tracker.
Consolidate ==
    /\ pc = "consolidate"
    /\ consIdx <= Len(trackerOrder)
    /\ ConsolidateYear(trackerOrder[consIdx])
    /\ consIdx' = consIdx + 1
    /\ UNCHANGED <<inputVars, pc, progress, last_batch, batch_number, pos, tracker,
                   trackerOrder, current_batch_chunks, features, run, hist, upsertVars,
                   extraVars>>

\* Line 301: the enumeration is exhausted.
EndLoop ==
    /\ pc = "loop"
    /\ pos >= NumBatches
    /\ pc' = "consolidate"
    /\ consIdx' = 1
    /\ NoFault
    /\ UNCHANGED <<storeVars, inputVars, progress, last_batch, batch_number, pos, tracker,
                   trackerOrder, current_batch_chunks, features, run, hist, upsertVars, extraVars>>

\* Lines 308-320: with sync every file of the output directory is removed.
Finish ==
    /\ pc = "consolidate"
    /\ consIdx > Len(trackerOrder)
    /\ IF sync
       THEN /\ localChunks' = EmptyMap
            /\ localCons' = EmptyMap
            /\ localDoc' = MissingDoc
       ELSE UNCHANGED <<localChunks, localCons, localDoc>>
    /\ pc' = "done"
    /\ NoFault
    /\ UNCHANGED <<s3Chunks, s3Cons, s3Doc, inputVars, loopVars, run, hist, upsertVars, extraVars>>

\* The process is killed: its memory is lost, the files stay.  Killed inside
\* _save_local (lines 198-199), after open(progress_file, 'w') has truncated
\* the file and before json.dump has written it out, it leaves a file that
\* does not parse.
Crash ==
    /\ pc \in {"init", "loop", "gathered", "written", "uploaded", "updated", "consolidate"}
    /\ Fault("crash")
    /\ \/ UNCHANGED storeVars
       \/ /\ pc = "uploaded"
          /\ ~sync
          /\ localDoc' = CorruptDoc
          /\ UNCHANGED <<localChunks, s3Chunks, localCons, s3Cons, s3Doc>>
    /\ pc' = "crashed"
    /\ progress' = EmptyMap
    /\ last_batch' = NoBatch
    /\ batch_number' = 0
    /\ pos' = 0
    /\ tracker' = EmptyMap
    /\ trackerOrder' = << >>
    /\ current_batch_chunks' = {}
    /\ features' = << >>
    /\ consIdx' = 0
    /\ UNCHANGED <<inputVars, run, hist, upsertVars, extraVars>>

Next ==
    \/ Begin
    \/ Reingest
    \/ NoReingest
    \/ SkipBatch
    \/ Gather
    \/ WriteFeatures
    \/ Upload
    \/ Update
    \/ Rotate
    \/ EndLoop
    \/ Consolidate
    \/ Finish
    \/ Crash

Spec == Init /\ [][Next]_vars


\* ============================================================ post_or_put
\* ingestbulk.post_or_put (lines 24-36) and ingestcoiled.post_or_put (lines
\* 28-40) are the same code.  A response is its status code; 0 stands for a
\* request that raised instead of answering (no connection, a timeout).
Statuses == {0, 200, 201, 204, 304, 400, 404, 409, 422, 500, 503}

Urls == {"items", "other/items"}

RecIds == {1, 2, 3}

\* Response.raise_for_status of requests: HTTPError for 4xx and 5xx.
raise_for_status(st) == 400 <= st /\ st < 600

\* Mutant: every client error of the POST is taken as a conflict.
post_conflict_any4xx(st) == 400 <= st /\ st < 500

\* Line 27 (ingestcoiled: line 31).
post_conflict(st) == st = 409

\* Mutant: the 404 of an unchanged record is not tolerated.
put_raises_strict(st) == raise_for_status(st)

\* Lines 32-33 (ingestcoiled: lines 36-37).
put_raises(st) == st # 404 /\ raise_for_status(st)

PipelineIdle ==
    /\ localChunks = EmptyMap
    /\ s3Chunks = EmptyMap
    /\ localCons = EmptyMap
    /\ s3Cons = EmptyMap
    /\ localDoc = MissingDoc
    /\ s3Doc = MissingDoc
    /\ yearOf = [i \in Ids |-> 2020]
    /\ sync = FALSE
    /\ reingest = FALSE
    /\ pc = "idle"
    /\ progress = EmptyMap
    /\ last_batch = NoBatch
    /\ batch_number = 0
    /\ pos = 0
    /\ tracker = EmptyMap
    /\ trackerOrder = << >>
    /\ current_batch_chunks = {}
    /\ features = << >>
    /\ consIdx = 0
    /\ run = 0
    /\ faults = 0
    /\ kinds = {}
    /\ hist = Hist0

pipelineVars == <<storeVars, inputVars, pc, loopVars, run, faults, kinds, hist>>

\* post_or_put(url, data) is called.
InitUpsert ==
    /\ PipelineIdle
    /\ ExtraIdle
    /\ ups \in [ upc : {"post"}, url : Urls, recId : RecIds,
                 requests : {<< >>}, status : {0}, outcome : {"none"} ]

\* Lines 26-27 and 34-36: the POST; unless it answered 409, raise_for_status
\* and the return of its status code.
UpsertPost ==
    /\ upc = "post"
    /\ \E st \in Statuses :
          ups' = [ups EXCEPT
                     !.requests = Append(@, [method |-> "POST", target |-> <<url>>, answer |-> st]),
                     !.status = st,
                     !.upc = IF st # 0 /\ post_conflict(st) THEN "put" ELSE "end",
                     !.outcome = IF st = 0 THEN "raised"
                                 ELSE IF post_conflict(st) THEN "none"
                                 ELSE IF raise_for_status(st) THEN "raised"
                                 ELSE "returned"]
    /\ UNCHANGED <<pipelineVars, extraVars>>

\* Lines 28-33 and 36: the PUT to url + "/" + data["id"].
UpsertPut ==
    /\ upc = "put"
    /\ \E st \in Statuses :
          ups' = [ups EXCEPT
                     !.requests = Append(@, [method |-> "PUT", target |-> <<url, recId>>, answer |-> st]),
                     !.status = st,
                     !.upc = "end",
                     !.outcome = IF st = 0 \/ put_raises(st) THEN "raised" ELSE "returned"]
    /\ UNCHANGED <<pipelineVars, extraVars>>

NextUpsert ==
    \/ UpsertPost
    \/ UpsertPut

SpecUpsert == InitUpsert /\ [][NextUpsert]_vars

\* ============================================================== shutdown
\* tests/count.py, lines 17-25: the handler of SIGINT sets the process-wide
\* flag on the first signal.  Here the signal reaches a process that runs
\* generate_items, which never reads the flag (generatebulk.py:274-301).
signal_handler ==
    /\ pc \in {"init", "loop", "gathered", "written", "uploaded", "updated", "consolidate"}
    /\ ~shutdown_requested
    /\ shutdown_requested' = TRUE
    /\ UNCHANGED <<pipelineVars, upsertVars, driverVars, countVars, ingestVars>>

NextShutdown ==
    \/ Next
    \/ signal_handler

SpecShutdown == Init /\ [][NextShutdown]_vars

\* ======================================================= other partitions
\* The progress document is a mapping from region to batch (lines 153-159,
\* 188-194).  A document that also holds the entry of another region key,
\* written by a run that used the same output directory.
OtherRegion == "Q"

OtherDoc == OkDoc(Put(EmptyMap, OtherRegion, 1))

InitRegions ==
    /\ localChunks = EmptyMap
    /\ s3Chunks = EmptyMap
    /\ localCons = EmptyMap
    /\ s3Cons = EmptyMap
    /\ localDoc = OtherDoc
    /\ s3Doc = OtherDoc
    /\ yearOf \in YearMaps
    /\ sync = FALSE
    /\ reingest = FALSE
    /\ pc = "idle"
    /\ progress = EmptyMap
    /\ last_batch = NoBatch
    /\ batch_number = 0
    /\ pos = 0
    /\ tracker = EmptyMap
    /\ trackerOrder = << >>
    /\ current_batch_chunks = {}
    /\ features = << >>
    /\ consIdx = 0
    /\ run = 0
    /\ faults = 0
    /\ kinds = {}
    /\ hist = Hist0
    /\ UpsertIdle
    /\ ExtraIdle

SpecRegions == InitRegions /\ [][Next]_vars

\* ========================================================= reconsolidation
\* consolidate_year (lines 71-133) is called once more for a time-key it has
\* already consolidated in this run, with the writer (tracker) as it was.
Reconsolidate ==
    /\ pc = "consolidate"
    /\ \E i \in 1 .. (consIdx - 1) : ConsolidateYear(trackerOrder[i])
    /\ UNCHANGED <<inputVars, pc, loopVars, run, hist, upsertVars, extraVars>>

NextReconsolidate ==
    \/ Next
    \/ Reconsolidate

SpecReconsolidate == Init /\ [][NextReconsolidate]_vars


\* ============================================================= two drivers
\* Two generate_items processes (lines 204-320) run for the same region on
\* the same output directory, without reingest.  Each holds its own progress
\* tracker (lines 224-225), loaded once when the process starts (lines 141
\* and 176); sharedDoc is the one progress.json both trackers write.
Drivers == {1, 2}

\* What a driver leaves alone: the single-run model, post_or_put, the signal.
driverRest == <<storeVars, inputVars, pc, loopVars, run, hist, upsertVars, signalVars, countVars, ingestVars>>

DriverOff == [pc |-> "off", progress |-> EmptyMap, last_batch |-> NoBatch, batch_number |-> 0, loadedAt |-> 0]

\* Mutant: the stored mapping is read back and the higher batch is kept.
save_merged(stored, prog) ==
    OkDoc([r \in DOMAIN prog |->
              IF get_last_batch(LoadProgress(stored), r) > prog[r]
              THEN get_last_batch(LoadProgress(stored), r)
              ELSE prog[r]])

\* _sync_to_s3 (lines 161-170) and _save_local (lines 196-202): the file is
\* replaced by the tracker's own mapping, whatever it holds.
save(stored, prog) == OkDoc(prog)

\* Lines 224-227: the tracker loads the document, the checkpoint is read.
DrvStart(d) ==
    /\ drivers[d].pc = "off"
    /\ drivers' = [drivers EXCEPT ![d] =
                     [pc |-> "loop",
                      progress |-> LoadProgress(sharedDoc),
                      last_batch |-> get_last_batch(LoadProgress(sharedDoc), Region),
                      batch_number |-> 0,
                      loadedAt |-> Len(persistLog)]]
    /\ NoFault
    /\ UNCHANGED <<sharedDoc, persistLog, driverRest>>

\* Lines 276-282: a batch at or below the checkpoint read at start is skipped.
DrvSkip(d) ==
    /\ drivers[d].pc = "loop"
    /\ drivers[d].batch_number < NumBatches
    /\ Skips(drivers[d].batch_number, drivers[d].last_batch, FALSE)
    /\ drivers' = [drivers EXCEPT ![d].batch_number = @ + 1]
    /\ NoFault
    /\ UNCHANGED <<sharedDoc, persistLog, driverRest>>

\* Lines 284-300: the batch is processed and update (line 294) sets the entry
\* in memory and saves the mapping; a failed save is logged (lines 169-170,
\* 201-202); an exception before update skips it (lines 298-300).
DrvBatch(d) ==
    /\ drivers[d].pc = "loop"
    /\ drivers[d].batch_number < NumBatches
    /\ ~Skips(drivers[d].batch_number, drivers[d].last_batch, FALSE)
    /\ LET bn == drivers[d].batch_number
           prog == update(drivers[d].progress, Region, bn)
       IN \/ /\ drivers' = [drivers EXCEPT ![d].progress = prog, ![d].batch_number = bn + 1]
             /\ sharedDoc' = save(sharedDoc, prog)
             /\ persistLog' = Append(persistLog, [by |-> d, batch |-> sharedDoc'.map[Region],
                                                  loadedAt |-> drivers[d].loadedAt])
             /\ NoFault
          \/ /\ drivers' = [drivers EXCEPT ![d].progress = prog, ![d].batch_number = bn + 1]
             /\ sharedDoc' \in {sharedDoc, CorruptDoc}
             /\ UNCHANGED persistLog
             /\ Fault("persist")
          \/ /\ drivers' = [drivers EXCEPT ![d].batch_number = bn + 1]
             /\ UNCHANGED <<sharedDoc, persistLog>>
             /\ Fault("gather")
    /\ UNCHANGED driverRest

\* Line 301: the enumeration is exhausted.
DrvEnd(d) ==
    /\ drivers[d].pc = "loop"
    /\ drivers[d].batch_number >= NumBatches
    /\ drivers' = [drivers EXCEPT ![d].pc = "done"]
    /\ NoFault
    /\ UNCHANGED <<sharedDoc, persistLog, driverRest>>

\* The document left by earlier runs: none, or a checkpoint of the region.
InitTwoDrivers ==
    /\ PipelineIdle
    /\ UpsertIdle
    /\ shutdown_requested = FALSE
    /\ CountIdle
    /\ IngestIdle
    /\ drivers = [d \in Drivers |-> DriverOff]
    /\ sharedDoc \in {MissingDoc} \cup {OkDoc(Put(EmptyMap, Region, k)) : k \in 0 .. (NumBatches - 2)}
    /\ persistLog = << >>

NextTwoDrivers ==
    \/ \E d \in Drivers : DrvStart(d)
    \/ \E d \in Drivers : DrvSkip(d)
    \/ \E d \in Drivers : DrvBatch(d)
    \/ \E d \in Drivers : DrvEnd(d)

SpecTwoDrivers == InitTwoDrivers /\ [][NextTwoDrivers]_vars


\* ========================================================== count_s3_files
\* tests/count.py.  A directory name is the sequence of the pieces its text
\* has between ':' characters (<<"a/">> is "a/", <<"t", "0", "s/">> is
\* "t:0:s/", as in a time-stamped prefix), so that a line of the cache file,
\* written as f"{dir_path}:{count}:{today}" (lines 146, 178) and read back
\* with line.strip().split(':') (line 73), is the sequence of its pieces.
DirList == << <<"a/">>, <<"b/">>, <<"t", "0", "s/">> >>

\* Pages the paginator returns for a directory (line 114); every page holds
\* one object with the extension, so the complete count is NumPages.
NumPages == 2

None == -1

\* str(count) inside the f-string and int(count) of line 77.
IntStr == <<"0", "1", "2", "3">>

str(n) == IntStr[n + 1]

IsIntStr(t) == \E n \in 0 .. (Len(IntStr) - 1) : IntStr[n + 1] = t

int(t) == CHOOSE n \in 0 .. (Len(IntStr) - 1) : IntStr[n + 1] = t

\* datetime.date.today().isoformat() of the run (line 57).
Dates == <<"d1", "d2", "d3", "d4">>

Today == Dates[crun]

\* Lines 146 and 178: one line of the cache file.
FormatLine(dir_path, count, today) == dir_path \o <<str(count), today>>

\* A dict keeps its keys in insertion order: a sequence of <<key, value>>.
DictKeys(d) == {d[i][1] : i \in DOMAIN d}

DictGet(d, k) == d[CHOOSE i \in DOMAIN d : d[i][1] = k][2]

DictSet(d, k, v) ==
    IF k \in DictKeys(d)
    THEN [i \in DOMAIN d |-> IF d[i][1] = k THEN <<k, v>> ELSE d[i]]
    ELSE Append(d, <<k, v>>)

\* {**d, **e} of line 167.
RECURSIVE DictUpdate(_, _)
DictUpdate(d, e) ==
    IF e = << >> THEN d ELSE DictUpdate(DictSet(d, e[1][1], e[1][2]), Tail(e))

\* Lines 71-77: a line of at least three pieces gives the entry
\* parts[0] -> int(parts[1]); int raises ValueError on a piece that is not a
\* number.
LoadRaises(lines) == \E i \in DOMAIN lines : Len(lines[i]) >= 3 /\ ~IsIntStr(lines[i][2])

RECURSIVE LoadCache(_)
LoadCache(lines) ==
    IF lines = << >> THEN << >>
    ELSE LET line == lines[Len(lines)]
             before == LoadCache(SubSeq(lines, 1, Len(lines) - 1))
         IN IF Len(line) >= 3 THEN DictSet(before, <<line[1]>>, int(line[2])) ELSE before

\* Line 102.
ToProcess(dirs, c) == SelectSeq(dirs, LAMBDA d : d \notin DictKeys(c))

\* Mutant: the merged results are appended to the lines of the cache file.
RebuiltLinesAppended(final_results, today) ==
    cacheFile \o [i \in DOMAIN final_results |-> FormatLine(final_results[i][1], final_results[i][2], today)]

\* Lines 176-178: the lines of the rebuilt file.
RebuiltLines(final_results, today) ==
    [i \in DOMAIN final_results |-> FormatLine(final_results[i][1], final_results[i][2], today)]

\* Mutant: process_directory appends its result to the cache file itself.
process_directory_appends(dir_path, count, today) ==
    IF count = None THEN << >> ELSE <<FormatLine(dir_path, count, today)>>

\* Lines 106-126: what process_directory writes to the cache file: nothing,
\* it only returns (dir_path, count).
process_directory_writes(dir_path, count, today) == << >>

\* What the run has done so far; read by the properties only.
NewCountHist ==
    [ fileAtStart |-> cacheFile,   \* the cache file when the run started
      submitted |-> {},            \* directories handed to the executor
      received |-> << >>,          \* (dir_path, count) the driver got, in order
      appended |-> << >>,          \* what the driver appended: dir, count, pages listed
      cut |-> {},                  \* listings cut short by the flag or ended by an exception
      writers |-> << >>,           \* the thread of every write to the cache file
      stopSeen |-> FALSE,          \* line 170 found the flag set
      rebuilt |-> FALSE,           \* lines 176-182 replaced the cache file
      empty |-> FALSE ]            \* line 97: no directory was listed

countRest == <<storeVars, inputVars, pc, loopVars, run, hist, upsertVars, driverVars, ingestVars>>

Pending == [st |-> "pending", pages |-> 0, count |-> None]

\* Lines 30-103 and 129-134: a new process registers the handler, loads the
\* cache, lists the directories and submits those without cache entry.
CountStart ==
    /\ cpc \in {"off", "done", "exited", "raised"}
    /\ crun < MaxRuns
    /\ shutdown_requested' = FALSE
    /\ \/ \* line 77 raised
          /\ LoadRaises(cacheFile)
          /\ cnt' = [cnt EXCEPT !.crun = @ + 1, !.results = << >>,
                                !.cpc = "raised",
                                !.cache = << >>,
                                !.all_dirs = << >>,
                                !.to_process = << >>,
                                !.futures = EmptyMap,
                                !.chist = NewCountHist]
          /\ NoFault
       \/ \* line 86 raised
          /\ ~LoadRaises(cacheFile)
          /\ cnt' = [cnt EXCEPT !.crun = @ + 1, !.results = << >>,
                                !.cpc = "raised",
                                !.cache = LoadCache(cacheFile),
                                !.all_dirs = << >>,
                                !.to_process = << >>,
                                !.futures = EmptyMap,
                                !.chist = NewCountHist]
          /\ Fault("list")
       \/ /\ ~LoadRaises(cacheFile)
          /\ \E listed \in {<< >>, DirList} :
                LET loaded == LoadCache(cacheFile)
                    todo == ToProcess(listed, loaded)
                IN cnt' = [cnt EXCEPT !.crun = @ + 1, !.results = << >>,
                                      !.cache = loaded,
                                      !.all_dirs = listed,
                                      !.to_process = todo,
                                      !.futures = [d \in Range(todo) |-> Pending],
                                      !.chist = [NewCountHist EXCEPT !.submitted = Range(todo),
                                                                     !.empty = (listed = << >>)],
                                      !.cpc = IF listed = << >> THEN "done"
                                              ELSE IF todo = << >> THEN "merge"
                                              ELSE "collect"]
          /\ NoFault
    /\ UNCHANGED countRest

WorkersRun == cpc \in {"collect", "append", "check", "join"}

\* The future ends with (dir_path, count); listed is the number of pages read.
Ends(d, count, listed) ==
    LET w == process_directory_writes(d, count, Today)
    IN cnt' = [cnt EXCEPT
                  !.futures[d] = [st |-> "done", pages |-> listed, count |-> count],
                  !.cacheFile = @ \o w,
                  !.chist.cut = IF listed < NumPages THEN @ \cup {d} ELSE @,
                  !.chist.writers = IF w = << >> THEN @ ELSE Append(@, "worker")]

\* Lines 106-110: a worker thread takes the directory; with the flag set it
\* returns (dir_path, None) at once.
WorkerStart ==
    /\ WorkersRun
    /\ \E d \in DOMAIN futures :
          /\ futures[d].st = "pending"
          /\ IF shutdown_requested
             THEN Ends(d, None, 0)
             ELSE cnt' = [cnt EXCEPT !.futures[d].st = "running"]
    /\ NoFault
    /\ UNCHANGED <<shutdown_requested, countRest>>

\* Lines 111-126: one page is listed and counted, or the listing raises
\* (dir_path, None); after the page the flag is read (line 120) and the loop
\* left when it is set; after the loop the count so far is returned.
WorkerPage ==
    /\ WorkersRun
    /\ \E d \in DOMAIN futures :
          /\ futures[d].st = "running"
          /\ \/ /\ Fault("list")
                /\ Ends(d, None, futures[d].pages)
             \/ /\ NoFault
                /\ LET listed == futures[d].pages + 1
                   IN IF shutdown_requested \/ listed = NumPages
                      THEN Ends(d, listed, listed)
                      ELSE cnt' = [cnt EXCEPT !.futures[d].pages = listed]
    /\ UNCHANGED <<shutdown_requested, countRest>>

\* Lines 137-145: as_completed hands the driver a finished future; a count
\* that is not None goes to results and the cache file is opened for append.
Take ==
    /\ cpc = "collect"
    /\ \E d \in DOMAIN futures :
          /\ futures[d].st = "done"
          /\ IF futures[d].count # None
             THEN cnt' = [cnt EXCEPT !.chist.received = Append(@, <<d, futures[d].count>>),
                                     !.results = DictSet(@, d, futures[d].count),
                                     !.futures[d].st = "writing",
                                     !.cpc = "append"]
             ELSE cnt' = [cnt EXCEPT !.chist.received = Append(@, <<d, futures[d].count>>),
                                     !.futures[d].st = "taken",
                                     !.cpc = "check"]
    /\ NoFault
    /\ UNCHANGED <<shutdown_requested, countRest>>

\* Lines 145-146: the line is written and the file closed.
AppendLine ==
    /\ cpc = "append"
    /\ \E d \in DOMAIN futures :
          /\ futures[d].st = "writing"
          /\ cnt' = [cnt EXCEPT
                        !.cacheFile = Append(@, FormatLine(d, futures[d].count, Today)),
                        !.chist.appended = Append(@, [dir |-> d, count |-> futures[d].count,
                                                      pages |-> futures[d].pages]),
                        !.chist.writers = Append(@, "driver"),
                        !.futures[d].st = "taken",
                        !.cpc = "check"]
    /\ NoFault
    /\ UNCHANGED <<shutdown_requested, countRest>>

\* Lines 149-161: with the flag set the futures not started are cancelled
\* and the loop is left; else the loop goes on while futures are left.
CheckShutdown ==
    /\ cpc = "check"
    /\ IF shutdown_requested
       THEN cnt' = [cnt EXCEPT
                       !.futures = [d \in DOMAIN futures |->
                                       IF futures[d].st = "pending"
                                       THEN [futures[d] EXCEPT !.st = "cancelled"]
                                       ELSE futures[d]],
                       !.cpc = "join"]
       ELSE cnt' = [cnt EXCEPT
                       !.cpc = IF \E d \in DOMAIN futures : futures[d].st \in {"pending", "running", "done"}
                               THEN "collect"
                               ELSE "join"]
    /\ NoFault
    /\ UNCHANGED <<shutdown_requested, countRest>>

\* Line 132: leaving the with block waits for the running workers.
Join ==
    /\ cpc = "join"
    /\ \A d \in DOMAIN futures : futures[d].st \notin {"pending", "running"}
    /\ cnt' = [cnt EXCEPT !.cpc = "merge"]
    /\ NoFault
    /\ UNCHANGED <<shutdown_requested, countRest>>

\* Line 167.
final_results == DictUpdate(cache, results)

\* Lines 166-173: with the flag set the function returns here.
Merge ==
    /\ cpc = "merge"
    /\ IF shutdown_requested
       THEN cnt' = [cnt EXCEPT !.cpc = "done", !.chist.stopSeen = TRUE]
       ELSE cnt' = [cnt EXCEPT !.cpc = "rebuild"]
    /\ NoFault
    /\ UNCHANGED <<shutdown_requested, countRest>>

\* Lines 176-178: the new file is written.
RebuildWrite ==
    /\ cpc = "rebuild"
    /\ cnt' = [cnt EXCEPT !.newFile = <<RebuiltLines(final_results, Today)>>,
                          !.cpc = "replace"]
    /\ NoFault
    /\ UNCHANGED <<shutdown_requested, countRest>>

\* Lines 181-197: the new file is renamed over the cache file; the results
\* are printed and returned.
Replace ==
    /\ cpc = "replace"
    /\ cnt' = [cnt EXCEPT !.cacheFile = newFile[1],
                          !.newFile = << >>,
                          !.chist.rebuilt = TRUE,
                          !.cpc = "done"]
    /\ NoFault
    /\ UNCHANGED <<shutdown_requested, countRest>>

\* signal_handler, lines 20-28, while count_s3_files runs: the first SIGINT
\* sets the flag, a second one ends the process with sys.exit(1).
CountSignal ==
    /\ cpc \in {"collect", "append", "check", "join", "merge", "rebuild", "replace"}
    /\ IF ~shutdown_requested
       THEN /\ shutdown_requested' = TRUE
            /\ UNCHANGED cnt
       ELSE /\ cnt' = [cnt EXCEPT !.cpc = "exited"]
            /\ UNCHANGED shutdown_requested
    /\ NoFault
    /\ UNCHANGED countRest

\* Before the first call: no cache file yet.
InitCount ==
    /\ PipelineIdle
    /\ UpsertIdle
    /\ shutdown_requested = FALSE
    /\ drivers = << >>
    /\ sharedDoc = MissingDoc
    /\ persistLog = << >>
    /\ IngestIdle
    /\ cnt = [ cacheFile |-> << >>, newFile |-> << >>, cpc |-> "off", crun |-> 0,
               all_dirs |-> << >>, cache |-> << >>, to_process |-> << >>,
               futures |-> EmptyMap, results |-> << >>, chist |-> << >> ]

NextCount ==
    \/ CountStart
    \/ WorkerStart
    \/ WorkerPage
    \/ Take
    \/ AppendLine
    \/ CheckShutdown
    \/ Join
    \/ Merge
    \/ RebuildWrite
    \/ Replace
    \/ CountSignal

SpecCount == InitCount /\ [][NextCount]_vars


\* ====================================================== ingest_coiled_async
\* ingestcoiledv2.py.  A URL is its position in the page; the page files of
\* the listing are ListFiles many and every task reads the one at task_id.
MaxUrls == 4

ListFiles == 1

WorkerCounts == {1, 2}

ChunkSizes == {1, 2, 3}

BatchSizes == {1, 2}

\* Answers of the catalog to a POST and to a PUT; 0 is a request that raised.
PostAnswers == {0, 201, 409, 500}

PutAnswers == {0, 200, 404, 500}

\* The exception left the function.
Raised == -2

\* math.ceil(a / b), line 137.
ceil(a, b) == (a + b - 1) \div b

\* Line 137.
adjusted_chunk_size == Min(chunk_size, ceil(Len(page), workers))

\* Line 140: [all_urls[i:i+size] for i in range(0, len(all_urls), size)].
Chunks(all_urls, size) ==
    [k \in 1 .. ceil(Len(all_urls), size) |->
        SubSeq(all_urls, (k - 1) * size + 1, Min(k * size, Len(all_urls)))]

\* Mutant: an exception of the generator is not caught.
try_generate_unguarded(failed) == IF failed THEN "raised" ELSE "item"

\* Lines 60-65: the generator is called inside try/except Exception; a URL
\* whose generation raises is logged and left out.
try_generate(failed) == IF failed THEN "excluded" ELSE "item"

\* Mutant: post_or_put_async without its try/except.
post_or_put_async_unguarded(post, put) ==
    IF post = 0 THEN Raised
    ELSE IF post = 409
         THEN IF put = 0 THEN Raised
              ELSE IF put # 404 /\ put >= 400 THEN Raised
              ELSE put
    ELSE IF post >= 400 THEN Raised
    ELSE post

\* post_or_put_async, lines 31-47: the status of the POST, or of the PUT
\* after a 409; None when a request or raise_for_status raised (a PUT
\* answered 404 is not raised for).
post_or_put_async(post, put) ==
    IF post = 0 THEN None
    ELSE IF post = 409
         THEN IF put = 0 THEN None
              ELSE IF put # 404 /\ put >= 400 THEN None
              ELSE put
    ELSE IF post >= 400 THEN None
    ELSE post

ingestRest == <<pipelineVars, upsertVars, signalVars, driverVars, countVars>>

\* sum(results), line 157: every chunk returns len(urls) (line 98).
RECURSIVE SumLens(_)
SumLens(chunks) == IF chunks = << >> THEN 0 ELSE Len(chunks[1]) + SumLens(Tail(chunks))

\* ingest_coiled_async is called by one task of the batch job.
InitIngest ==
    /\ PipelineIdle
    /\ UpsertIdle
    /\ shutdown_requested = FALSE
    /\ drivers = << >>
    /\ sharedDoc = MissingDoc
    /\ persistLog = << >>
    /\ CountIdle
    /\ ing \in [ ipc : {"start"},
                 task_id : 0 .. ListFiles,
                 page : {[i \in 1 .. n |-> i] : n \in 0 .. MaxUrls},
                 workers : WorkerCounts,
                 chunk_size : ChunkSizes,
                 batch_size : BatchSizes,
                 ingest : BOOLEAN,
                 url_chunks : {<< >>},
                 chunkIdx : {0},
                 batchAt : {0},
                 metadata_items : {<< >>},
                 generated : {EmptyMap},
                 upserted : {EmptyMap},
                 returned : {None} ]

\* Lines 118-126: a task beyond the listing logs and returns None.
OutOfRange ==
    /\ ipc = "start"
    /\ task_id >= ListFiles
    /\ ing' = [ing EXCEPT !.ipc = "done"]
    /\ UNCHANGED ingestRest

\* Lines 128-151: the page is read and cut into chunks; range() raises
\* ValueError when its step is zero.
Split ==
    /\ ipc = "start"
    /\ task_id < ListFiles
    /\ IF adjusted_chunk_size = 0
       THEN ing' = [ing EXCEPT !.ipc = "raised_split"]
       ELSE ing' = [ing EXCEPT !.url_chunks = Chunks(page, adjusted_chunk_size),
                               !.chunkIdx = 1,
                               !.ipc = "batch"]
    /\ UNCHANGED ingestRest

\* urls[i:i+batch_size] of line 54, for the chunk being processed.
UrlBatch ==
    SubSeq(url_chunks[chunkIdx], batchAt + 1, Min(batchAt + batch_size, Len(url_chunks[chunkIdx])))

\* Lines 53-65: the next batch of the chunk is generated, URL by URL.
Generate ==
    /\ ipc = "batch"
    /\ chunkIdx <= Len(url_chunks)
    /\ batchAt < Len(url_chunks[chunkIdx])
    /\ \E bad \in SUBSET Range(UrlBatch) :
          LET result == [u \in Range(UrlBatch) |-> try_generate(u \in bad)]
              stops == {k \in DOMAIN UrlBatch : result[UrlBatch[k]] = "raised"}
              last == IF stops = {} THEN Len(UrlBatch)
                      ELSE CHOOSE k \in stops : \A j \in stops : k <= j
              done == {UrlBatch[k] : k \in 1 .. last}
              items == SelectSeq(SubSeq(UrlBatch, 1, last), LAMBDA u : result[u] = "item")
          IN ing' = [ing EXCEPT
                        !.generated = [u \in (DOMAIN generated) \cup done |->
                                          IF u \in done THEN result[u] ELSE generated[u]],
                        !.metadata_items = items,
                        !.ipc = IF stops # {} THEN "raised_gen"
                                ELSE IF ingest /\ items # << >> THEN "gathering"
                                ELSE "trim"]
    /\ UNCHANGED ingestRest

\* Lines 68-77: one of the gathered upserts of the batch runs to its end; an
\* exception of a task is re-raised by asyncio.gather.
UpsertItem ==
    /\ ipc = "gathering"
    /\ \E u \in Range(metadata_items) \ DOMAIN upserted :
       \E post \in PostAnswers :
       \E put \in (IF post = 409 THEN PutAnswers ELSE {0}) :
          LET answer == post_or_put_async(post, put)
          IN ing' = [ing EXCEPT
                        !.upserted = Put(upserted, u, answer),
                        !.ipc = IF answer = Raised THEN "raised_gather" ELSE "gathering"]
    /\ UNCHANGED ingestRest

\* Line 77: gather returns when every task has returned.
GatherDone ==
    /\ ipc = "gathering"
    /\ Range(metadata_items) \subseteq DOMAIN upserted
    /\ ing' = [ing EXCEPT !.ipc = "trim"]
    /\ UNCHANGED ingestRest

\* Lines 79-81 and the next round of line 53: trim_memory is called for
\* every fifth batch; it raises where libc.so.6 cannot be loaded.
Trim ==
    /\ ipc = "trim"
    /\ \/ ing' = [ing EXCEPT !.ipc = "batch", !.batchAt = @ + batch_size]
       \/ /\ batchAt % (batch_size * 5) = 0
          /\ ing' = [ing EXCEPT !.ipc = "raised_trim"]
    /\ UNCHANGED ingestRest

\* Lines 95-98: the chunk is exhausted and process_url_chunk returns
\* len(urls); the chunks share nothing, so they are taken one after the other.
ChunkEnd ==
    /\ ipc = "batch"
    /\ chunkIdx <= Len(url_chunks)
    /\ batchAt >= Len(url_chunks[chunkIdx])
    /\ ing' = [ing EXCEPT !.chunkIdx = @ + 1, !.batchAt = 0, !.metadata_items = << >>]
    /\ UNCHANGED ingestRest

\* Lines 154-159: the results of the chunks are summed and returned.
Return ==
    /\ ipc = "batch"
    /\ chunkIdx > Len(url_chunks)
    /\ ing' = [ing EXCEPT !.returned = SumLens(url_chunks), !.ipc = "done"]
    /\ UNCHANGED ingestRest

NextIngest ==
    \/ OutOfRange
    \/ Split
    \/ Generate
    \/ UpsertItem
    \/ GatherDone
    \/ Trim
    \/ ChunkEnd
    \/ Return

SpecIngest == InitIngest /\ [][NextIngest]_vars


\* ================================================================ claims
\* The consolidated output of the run: remote with sync, local without.
Output == IF sync THEN s3Cons ELSE localCons

OutputIds(y) == {r[1] : r \in Range(FileOr(Output, y))}

IdsOf(y) == {i \in Ids : yearOf[i] = y}

\* The records of a file that the current run wrote.
Own(file) == SelectSeq(file, LAMBDA r : r[2] = run)

RECURSIVE IsSubseq(_, _)
IsSubseq(a, b) ==
    IF a = << >> THEN TRUE
    ELSE IF b = << >> THEN FALSE
    ELSE IF Head(a) = Head(b) THEN IsSubseq(Tail(a), Tail(b))
    ELSE IsSubseq(a, Tail(b))

\* A run from scratch in which nothing fails consolidates, for every
\* time-key, exactly the records of the identifiers of that time-key.
FromScratchOutput ==
    (run = 1 /\ pc = "done" /\ kinds = {}) =>
        \A y \in Years : OutputIds(y) = IdsOf(y)

\* C1 (as claimed): a run without reingest that resumes from checkpoint k left
\* by an interrupted run processes exactly the batches k+1..N and, once it has
\* consolidated, the output of every time-key holds the same set of records
\* as a from-scratch run over all batches.  The only failure in the behaviour
\* is the interruption of the first run.
C1_ResumeIdempotence ==
    (run = 2 /\ pc = "done" /\ ~reingest /\ hist.prevCrashed /\ hist.prevSync = sync
       /\ kinds = {"crash"} /\ last_batch >= 0) =>
        /\ hist.processed = [i \in 1 .. (NumBatches - 1 - last_batch) |-> last_batch + i]
        /\ \A y \in Years : OutputIds(y) = IdsOf(y)

\* C2 (as claimed): when batch i raised an unhandled error in the previous
\* run of the same mode, the first batch the next run without reingest
\* processes is batch i, whatever happened to the batches after i.
C2_FailedBatchRetry ==
    (run >= 2 /\ ~reingest /\ hist.prevSync = sync /\ hist.prevFailedFirst # NoBatch
       /\ pc \in {"consolidate", "done"}) =>
        /\ hist.processed # << >>
        /\ hist.processed[1] = hist.prevFailedFirst

\* C3 (as claimed): every batch a run without reingest skips was written and
\* checkpointed by an earlier run; a batch that never completed is not skipped.
C3_NoUnconfirmedSkip ==
    ~reingest => \A p \in hist.skipped : p \in hist.doneEver

\* C4: within one run the value of get_last_batch never decreases from one
\* step to the next, except that the reingest reset takes it to -1.
C4_ForwardOnly ==
    [][(run' = run /\ pc' # "crashed") =>
          \/ get_last_batch(progress', Region) >= get_last_batch(progress, Region)
          \/ (pc = "init" /\ reingest /\ get_last_batch(progress', Region) = NoBatch)]_vars

\* C4 witness: after a reingest reset, two successive updates of one run.
C4_Witness ==
    /\ run = 2
    /\ reingest
    /\ Len(hist.ckptLog) >= 2
    /\ get_last_batch(progress, Region) = hist.ckptLog[Len(hist.ckptLog)]
    /\ hist.ckptLog[1] < hist.ckptLog[2]

\* C5 (as claimed): with sync, when the checkpoint has been advanced to batch i
\* every record of batch i is in its chunk in the remote store.
C5_CheckpointAfterDurable ==
    (pc = "updated" /\ sync) =>
        \A k \in DOMAIN hist.batchRecs :
            LET r == hist.batchRecs[k]
                y == yearOf[r[1]]
            IN r \in Range(FileOr(s3Chunks, <<y, tracker[y]>>))

\* C6 (as claimed): between batches, after B completed batches of a run in
\* which nothing has failed, the sequence counter of every time-key the writer
\* has seen equals B.
C6_RotationAlignment ==
    (pc = "loop" /\ kinds = {}) => \A y \in DOMAIN tracker : tracker[y] = hist.rotations

\* C7: once a time-key is consolidated, the records of the run in its
\* consolidated file are in the order write_feature wrote them: always a
\* subsequence of the writes (the local file always exists), and all of them, in
\* that order, unless a write, an upload, a chunk read or the put of
\* the consolidated file failed.
C7_ConsolidationOrder ==
    pc \in {"consolidate", "done"} =>
        \A i \in 1 .. (consIdx - 1) :
            LET y == trackerOrder[i]
            IN /\ ~sync => y \in DOMAIN Output
               /\ y \in DOMAIN Output => IsSubseq(Own(Output[y]), hist.written[y])
               /\ (~sync /\ "read" \notin kinds) => Own(Output[y]) = hist.written[y]
               /\ kinds \cap {"write", "upload", "read", "put"} = {} =>
                     /\ y \in DOMAIN Output
                     /\ Own(Output[y]) = hist.written[y]

\* C7 witness: a consolidated file holding the records of two different
\* batches of the run, kept in two chunks.
C7_Witness ==
    /\ pc = "done"
    /\ hist.rotations >= 2
    /\ \E y \in DOMAIN Output :
          /\ y \in DOMAIN tracker
          /\ Own(Output[y]) = hist.written[y]
          /\ \E a, b \in Range(hist.written[y]) :
                (a[1] - 1) \div BatchSize # (b[1] - 1) \div BatchSize

\* C8 (as claimed): batch_size 2, identifiers a..e (1..5) of one time-key, the
\* generator fails on c (3) and nothing else fails: the checkpoints set are
\* 0, 1, 2 and the consolidated file holds a, b, d, e in that order.
C8_Scenario ==
    (run = 1 /\ pc = "done" /\ NumIds = 5 /\ BatchSize = 2
       /\ yearOf = [i \in Ids |-> 2020]
       /\ kinds = {"generate"} /\ hist.genFailed = {3}) =>
        /\ hist.ckptLog = <<0, 1, 2>>
        /\ DOMAIN Output = {2020}
        /\ Output[2020] = <<<<1, 1>>, <<2, 1>>, <<4, 1>>, <<5, 1>>>>

\* C9 (as claimed): right after the reingest reset, with sync also in the remote
\* store, the checkpoint reads -1 and no chunk and no consolidated file is
\* left, even when nothing has failed.
C9_ReingestReset ==
    (pc = "loop" /\ reingest /\ pos = 0 /\ hist.processed = << >> /\ kinds = {}) =>
        /\ get_last_batch(progress, Region) = NoBatch
        /\ localChunks = EmptyMap
        /\ localCons = EmptyMap
        /\ sync => (s3Chunks = EmptyMap /\ s3Cons = EmptyMap)


Posts == {k \in DOMAIN requests : requests[k].method = "POST"}

Puts == {k \in DOMAIN requests : requests[k].method = "PUT"}

UpsertCommon ==
    upc = "end" =>
        /\ Cardinality(Posts) = 1
        /\ requests[1].method = "POST"
        /\ requests[1].target = <<url>>
        /\ Puts # {} <=> requests[1].answer = 409
        /\ \A k \in Puts :
              /\ k = 2
              /\ requests[k].target = <<url, recId>>
              /\ requests[k].answer = 404 => (outcome = "returned" /\ status = 404)
              /\ (requests[k].answer >= 400 /\ requests[k].answer # 404) => outcome = "raised"
              /\ (requests[k].answer >= 200 /\ requests[k].answer < 300) => outcome = "returned"

\* C10 (as claimed): exactly one POST; a PUT to url/id iff the POST answered
\* 409; a PUT answer of 404 is a success and any other PUT failure status
\* raises; a POST status that is neither 2xx nor 409 raises and no PUT is issued.
C10_UpsertOutcome ==
    /\ UpsertCommon
    /\ (upc = "end" /\ ~(requests[1].answer >= 200 /\ requests[1].answer < 300)
          /\ requests[1].answer # 409)
       => (outcome = "raised" /\ Puts = {})

\* C10 (amended): as claimed, except that the POST raises for a 4xx or 5xx
\* status other than 409 (and when the request itself raises); a POST status
\* below 400, such as 304, is returned like a 2xx status, without a PUT.
C10_UpsertOutcomeAmended ==
    /\ UpsertCommon
    /\ (upc = "end" /\ (requests[1].answer = 0
                          \/ (requests[1].answer >= 400 /\ requests[1].answer # 409)))
       => (outcome = "raised" /\ Puts = {})
    /\ (upc = "end" /\ requests[1].answer > 0 /\ requests[1].answer < 400)
       => (outcome = "returned" /\ status = requests[1].answer /\ Puts = {})

\* C10 witness: a conflict answered by a PUT that returned 404.
C10_Witness ==
    /\ upc = "end"
    /\ Len(requests) = 2
    /\ requests[1].answer = 409
    /\ requests[2].answer = 404
    /\ outcome = "returned"

\* C11 (as claimed): when the generator raised on one identifier of a batch
\* and nothing else failed, the records of the other identifiers of that batch
\* are written and the batch is checkpointed as completed.
C11_ItemFailureIsolated ==
    (run = 1 /\ pc = "loop" /\ kinds = {"generate"}) =>
        \A f \in hist.genFailed :
            LET p == (f - 1) \div BatchSize
            IN /\ p \in Range(hist.ckptLog)
               /\ \A i \in Range(Batch(p)) \ {f} :
                     <<i, run>> \in Range(hist.written[yearOf[i]])

\* A step in which an exception escapes the batch to the handler of line 298:
\* gather, a write or trim_memory raised.
BatchEscapes ==
    /\ pc \in {"loop", "gathered", "updated"}
    /\ pc' = "loop"
    /\ faults' = faults + 1

\* C12 (as claimed): when an exception escapes a batch, the checkpoint is not
\* advanced to that batch and no sequence counter is rotated for it, the batch
\* is not retried and the loop goes on with the next position.
C12_EscapedBatch ==
    [][BatchEscapes =>
          /\ get_last_batch(progress', Region) # batch_number
          /\ \A y \in DOMAIN tracker : tracker'[y] = tracker[y]
          /\ pos' = pos + 1]_vars

\* C13 (as claimed): when the process is killed during update, each stored
\* progress document is afterwards either what it was before the update or the
\* complete new mapping.
C13_AtomicCheckpoint ==
    [][(pc = "uploaded" /\ pc' = "crashed") =>
          /\ localDoc' \in {localDoc, OkDoc(update(progress, Region, batch_number))}
          /\ s3Doc' \in {s3Doc, OkDoc(update(progress, Region, batch_number))}]_vars

\* The checkpoint a new run would load from a stored document.
Stored(doc) == get_last_batch(LoadProgress(doc), Region)

\* C14 (as claimed): when persisting fails inside update(region, i), the loop
\* goes on to the rotation, get_last_batch(region) returns i, and what a new
\* run would load from the store is what it would have loaded before the
\* update: the last value persisted successfully, which is below i.
C14_PersistFailure ==
    [][(pc = "uploaded" /\ pc' = "updated" /\ faults' = faults + 1) =>
          /\ get_last_batch(progress', Region) = batch_number
          /\ batch_number' = batch_number
          /\ Stored(localDoc') = Stored(localDoc)
          /\ Stored(s3Doc') = Stored(s3Doc)]_vars

\* C15: when the stored progress document is missing, unparsable or its read
\* raises, the tracker is built all the same with an empty mapping,
\* get_last_batch returns -1 for the region, and the run skips no batch: the
\* first batch it dispatches is batch 0.
C15_LoadFailsOpen ==
    (hist.loadFailed /\ pc \notin {"idle", "crashed"}) =>
        /\ last_batch = NoBatch
        /\ pc = "init" => (progress = EmptyMap /\ get_last_batch(progress, Region) = NoBatch)
        /\ hist.skipped = {}
        /\ hist.processed # << >> => hist.processed[1] = 0

\* C15 witness: a checkpoint is stored for the region, its read raised, and
\* the run has dispatched batch 0 again.
C15_Witness ==
    /\ hist.loadFailed
    /\ pc = "gathered"
    /\ ~reingest
    /\ Stored(IF sync THEN s3Doc ELSE localDoc) >= 0
    /\ hist.processed = <<0>>

\* C16 (as claimed): with sync, a touched chunk that upload_batch_chunks did
\* not get into the remote store keeps its local file and is still in the
\* set of chunks to upload when the call returns, so that the next call
\* uploads it.
C16_FailedUploadPending ==
    [][(pc = "written" /\ pc' = "uploaded" /\ sync) =>
          \A c \in current_batch_chunks \cap DOMAIN localChunks :
              (c \notin DOMAIN s3Chunks' \/ s3Chunks'[c] # localChunks[c]) =>
                  /\ c \in DOMAIN localChunks'
                  /\ localChunks'[c] = localChunks[c]
                  /\ c \in current_batch_chunks']_vars

\* C17: the step that rotates adds exactly one to the sequence counter of
\* every time-key of the tracker, touched in the batch or not, and creates no
\* key; no other step of a run changes a counter (a skipped batch and a batch
\* whose gather or write raised leave them as they are); and between batches
\* the rotations of the run are as many as its calls of update.
C17_RotateOncePerBatch ==
    [][/\ (pc = "updated" /\ pc' = "loop") =>
             /\ DOMAIN tracker' = DOMAIN tracker
             /\ \A y \in DOMAIN tracker : tracker'[y] = tracker[y] + 1
       /\ (pc # "updated" /\ run' = run /\ pc' # "crashed") =>
             /\ \A y \in DOMAIN tracker : y \in DOMAIN tracker' /\ tracker'[y] = tracker[y]
             /\ hist'.rotations = hist.rotations
       /\ (pc' \in {"loop", "consolidate"} /\ run' = run) =>
             hist'.rotations = Len(hist'.ckptLog)]_vars

\* C17 witness: two batches completed, and a time-key that the second batch
\* did not touch has been rotated twice.
C17_Witness ==
    /\ pc = "loop"
    /\ run = 1
    /\ kinds = {}
    /\ hist.rotations = 2
    /\ \E y \in DOMAIN tracker :
          /\ tracker[y] = 2
          /\ \A i \in Range(Batch(1)) : yearOf[i] # y

\* The store consolidate_year reads the chunks from: remote with sync.
ChunkStore == IF sync THEN s3Chunks ELSE localChunks

\* C18 (as claimed): once consolidate_year has returned for a time-key, with or
\* without sync and with nothing having failed, the consolidated file of the
\* time-key exists and none of the chunks it was made from is left.
C18_ChunksSuperseded ==
    (pc \in {"consolidate", "done"} /\ kinds = {}) =>
        \A i \in 1 .. (consIdx - 1) :
            LET y == trackerOrder[i]
            IN /\ y \in DOMAIN Output
               /\ YearChunks(tracker, y) \cap DOMAIN ChunkStore = {}

\* C19 (as claimed): with sync, the consolidate_year call in which the put of
\* the consolidated file fails removes no remote chunk, and the clean-up at
\* the end of a run in which such a put failed removes no local chunk.
C19_DeleteAfterUpload ==
    [][/\ (pc = "consolidate" /\ sync /\ "put" \in kinds' /\ "put" \notin kinds) =>
             s3Chunks' = s3Chunks
       /\ (pc = "consolidate" /\ pc' = "done" /\ sync /\ run = 1 /\ "put" \in kinds) =>
             localChunks' = localChunks]_vars

\* The chunk file a record of the batch in flight belongs to.
ChunkOf(rec) == <<yearOf[rec[1]], tracker[yearOf[rec[1]]]>>

InChunk(store, rec) ==
    /\ yearOf[rec[1]] \in DOMAIN tracker
    /\ ChunkOf(rec) \in DOMAIN store
    /\ rec \in Range(store[ChunkOf(rec)])

\* The steps of a batch, in the state each one leaves.
BatchOrderState ==
    /\ pc = "gathered" =>
          \* every item of the batch has returned, nothing is written yet
          /\ features = [i \in DOMAIN Batch(pos) |-> <<Batch(pos)[i], run>>]
          /\ hist.batchRecs = << >>
          /\ \A k \in DOMAIN features : ~InChunk(localChunks, features[k])
    /\ pc \in {"written", "uploaded", "updated"} =>
          \* every record is in its chunk file, in the order of the batch
          /\ hist.batchRecs = features
          /\ \A k \in DOMAIN features : InChunk(localChunks, features[k])
    /\ pc \in {"gathered", "written", "uploaded"} =>
          \* the checkpoint is not yet at this batch
          get_last_batch(progress, Region) < batch_number
    /\ pc = "written" =>
          \* every chunk of the batch is marked as touched
          {ChunkOf(features[k]) : k \in DOMAIN features} \subseteq current_batch_chunks
    /\ pc \in {"uploaded", "updated"} =>
          \* upload_batch_chunks has run: with sync every touched chunk whose
          \* put did not fail is in the remote store
          /\ current_batch_chunks = {}
          /\ (sync /\ "upload" \notin kinds) =>
                \A k \in DOMAIN features : InChunk(s3Chunks, features[k])
    /\ pc = "updated" => get_last_batch(progress, Region) = batch_number

BatchOrderStep ==
    /\ (run' = run /\ pc' # "crashed" /\ pc # "init" /\ progress' # progress) =>
          (pc = "uploaded" /\ pc' = "updated")
    /\ (run' = run /\ pc # "init" /\ pc # "consolidate" /\ localChunks' # localChunks) =>
          pc = "gathered"
    /\ (run' = run /\ pc # "init" /\ pc # "consolidate" /\ s3Chunks' # s3Chunks) =>
          (pc = "written" /\ pc' = "uploaded")
    /\ hist'.rotations # hist.rotations =>
          (pc = "updated" \/ run' # run)

\* C20: in a batch that completes, gather has returned the record of every
\* item before the first record is written, every record is in its chunk
\* before upload_batch_chunks runs, the upload has run before the checkpoint
\* is set to the batch, and the checkpoint is set before the chunks are
\* rotated; nothing is written and no checkpoint is set before gather has
\* returned.
C20_BatchOrder == []BatchOrderState /\ [][BatchOrderStep]_vars

\* C20 witness: a batch with records of two time-keys, checkpointed in a sync
\* run and about to be rotated.
C20_Witness ==
    /\ pc = "updated"
    /\ sync
    /\ kinds = {}
    /\ hist.rotations = 1
    /\ Len(features) = BatchSize
    /\ yearOf[features[1][1]] # yearOf[features[2][1]]
    /\ \A k \in DOMAIN features : InChunk(s3Chunks, features[k])
    /\ get_last_batch(progress, Region) = batch_number

\* The identifiers a failure log of the run names: at best those whose
\* generation raised (line 299 logs the batch number and str(e)).
LoggedIds == hist.genFailed

\* C22 (as claimed): between batches, every identifier of every batch the run
\* has dispatched either has its record in a chunk file or is named in a
\* failure log.
C22_NoSilentDrop ==
    pc = "loop" =>
        \A k \in DOMAIN hist.processed :
            \A i \in Range(Batch(hist.processed[k])) :
                \/ \E c \in DOMAIN localChunks : <<i, run>> \in Range(localChunks[c])
                \/ i \in LoggedIds

\* A file of the store new holds content that old did not hold under that name.
Created(old, new) == \E y \in DOMAIN new : y \notin DOMAIN old \/ new[y] # old[y]

\* The keys of file_handler.tracker, each listed once, in the order of
\* their first write.
KeysListedOnce ==
    /\ Range(trackerOrder) = DOMAIN tracker
    /\ \A a, b \in DOMAIN trackerOrder : trackerOrder[a] = trackerOrder[b] => a = b

ConsolidationState ==
    /\ KeysListedOnce
    /\ pc = "consolidate" => (pos = NumBatches /\ consIdx \in 1 .. (Len(trackerOrder) + 1))
    /\ pc = "done" =>
          /\ consIdx = Len(trackerOrder) + 1
          /\ ~sync => DOMAIN tracker \subseteq DOMAIN localCons

ConsolidationStep ==
    /\ (run' = run /\ (Created(localCons, localCons') \/ Created(s3Cons, s3Cons'))) =>
          /\ pc = "consolidate"
          /\ pos = NumBatches
          /\ consIdx' = consIdx + 1
          /\ \A y \in Years \ {trackerOrder[consIdx]} :
                /\ FileOr(localCons', y) # << >> => FileOr(localCons', y) = FileOr(localCons, y)
                /\ FileOr(s3Cons', y) = FileOr(s3Cons, y)
    /\ (pc = "consolidate" /\ pc' = "consolidate") => consIdx' = consIdx + 1

\* C23: a consolidated file is written only once the batch loop of the run
\* has gone through the whole enumeration, and then consolidate_year is called
\* for the keys of the tracker one after the other, each key once: when the
\* run is done, every time-key the writer has seen has been consolidated.
C23_ConsolidateAfterLoop == []ConsolidationState /\ [][ConsolidationStep]_vars

\* C23 witness: a local run done, two time-keys seen, both consolidated.
C23_Witness ==
    /\ pc = "done"
    /\ ~sync
    /\ kinds = {}
    /\ Len(trackerOrder) = 2
    /\ Range(trackerOrder) \subseteq DOMAIN localCons
    /\ \A y \in Range(trackerOrder) : Own(localCons[y]) = hist.written[y]

\* What the chunks read gave: every line of the chunks numbered in whole, the
\* first cut[n] lines of each chunk n in DOMAIN cut.
Part(store, year, n, cut) ==
    IF n \in DOMAIN cut THEN SubSeq(store[<<year, n>>], 1, cut[n]) ELSE store[<<year, n>>]

RECURSIVE SumLen(_, _, _, _)
SumLen(store, year, S, cut) ==
    IF S = {} THEN 0
    ELSE LET n == CHOOSE x \in S : TRUE
         IN Len(Part(store, year, n, cut)) + SumLen(store, year, S \ {n}, cut)

\* out is made of the parts of the chunks of year numbered in S, one part
\* after the other, by increasing number.
IsConcatOf(out, store, year, S, cut) ==
    /\ Len(out) = SumLen(store, year, S, cut)
    /\ \A n \in S : IsSubseq(Part(store, year, n, cut), out)
    /\ \A n, m \in S : n < m =>
          \A a \in Range(Part(store, year, n, cut)), b \in Range(Part(store, year, m, cut)) :
              \E i, j \in DOMAIN out : i < j /\ out[i] = a /\ out[j] = b

\* A call of consolidate_year returns to the loop over the keys, and unless
\* its put failed, the file it wrote is made of the chunks of the time-key
\* numbered 0..N that exist in the store it reads from, by increasing number:
\* all of them whole when no read raised in the call, and otherwise all but
\* one whole and lines of that one where lines is 0 (as claimed) or any number
\* below its length.
ConsolidatedFrom(maxLines) ==
    (pc = "consolidate" /\ pc' = "consolidate") =>
        LET y == trackerOrder[consIdx]
            present == {n \in 0 .. tracker[y] : <<y, n>> \in DOMAIN ChunkStore}
            outs == IF sync THEN s3Cons' ELSE localCons'
            putFailed == sync /\ faults' > faults /\ s3Cons' = s3Cons
        IN /\ consIdx' = consIdx + 1
           /\ ~putFailed =>
                 /\ y \in DOMAIN outs
                 /\ \E bad \in SUBSET present :
                       /\ Cardinality(bad) <= faults' - faults
                       /\ \E cut \in Cuts(ChunkStore, y, bad) :
                             /\ \A n \in bad : cut[n] <= maxLines
                             /\ IsConcatOf(outs[y], ChunkStore, y, present, cut)

AppendedInOrder(before, after, feats, t) ==
    \A c \in DOMAIN after :
        after[c] = FileOr(before, c)
                   \o SelectSeq(feats, LAMBDA r : <<yearOf[r[1]], t[yearOf[r[1]]]>> = c)

BatchesAscending ==
    \A a, b \in DOMAIN hist.processed : a < b => hist.processed[a] < hist.processed[b]

GatherOrderStep ==
    /\ (run' = run /\ pc' # "crashed") => (pos' >= pos /\ batch_number' >= batch_number)
    /\ (pc = "loop" /\ pc' = "gathered") =>
          features' = [i \in DOMAIN Batch(pos) |-> <<Batch(pos)[i], run>>]
    /\ (pc = "gathered" /\ pc' = "written") =>
          /\ hist'.batchRecs = [i \in DOMAIN Batch(pos) |-> <<Batch(pos)[i], run>>]
          /\ AppendedInOrder(localChunks, localChunks', features, tracker')

\* C27: the batches a run dispatches are in increasing order of position and
\* the batch counter never goes back; whatever the order in which the workers
\* finish the items of a batch, gather gives their records in the order of the
\* identifiers in the batch, and they are appended to their chunks in that
\* order.
C27_OrderIndependence == []BatchesAscending /\ [][GatherOrderStep]_vars

\* C27 witness: the second batch written, two records of one time-key
\* appended to one chunk in the order of their identifiers.
C27_Witness ==
    /\ pc = "written"
    /\ pos = 1
    /\ hist.processed = <<0, 1>>
    /\ Len(features) = BatchSize
    /\ ChunkOf(features[1]) = ChunkOf(features[2])
    /\ features[1][1] < features[2][1]
    /\ localChunks[ChunkOf(features[1])] = features

\* The records of the first batch of the run whose write raised.
PartialRecs == {<<i, run>> : i \in Range(Batch(hist.failedFirst))}

\* C28 (as claimed): when write_feature raised partway through a batch, and
\* nothing else failed, the records of that batch already appended are in no
\* consolidated file of the run, and no chunk holds them together with
\* records of another batch of the run.
C28_NoPartialOutput ==
    (run = 1 /\ kinds = {"write"} /\ hist.failedFirst # NoBatch) =>
        /\ \A y \in DOMAIN Output : Range(Output[y]) \cap PartialRecs = {}
        /\ \A c \in DOMAIN localChunks :
              Range(localChunks[c]) \cap PartialRecs # {} =>
                  Range(localChunks[c]) \subseteq PartialRecs

\* C29 (as claimed): at every point of the batch loop batch_number is the
\* zero-based position of the batch in the enumeration, whatever was skipped,
\* completed or failed before, a raising trim_memory included.
C29_BatchNumberIsPosition ==
    pc \in {"loop", "gathered", "written", "uploaded", "updated"} => batch_number = pos

\* C21 (as claimed): once the shutdown flag is set, the loop of generate_items
\* dispatches no batch from between two batches: the step it takes from there
\* leaves the loop for the consolidation.
C21_Cancellation ==
    [][(shutdown_requested /\ pc = "loop" /\ pc' # "crashed") => pc' = "consolidate"]_vars

\* The entries of the regions other than the one being processed.
Others(prog) == [q \in (DOMAIN prog) \ {Region} |-> prog[q]]

\* C26 (as claimed): the reset done for reingest, when nothing fails in it,
\* leaves the entry of every other region as it was, in the mapping in memory
\* and in the stored document of the run's tracker.
C26_ResetOnlyPartition ==
    [][(pc = "init" /\ pc' = "loop" /\ reingest /\ faults' = faults) =>
          /\ Others(progress') = Others(progress)
          /\ IF sync
             THEN Others(LoadProgress(s3Doc')) = Others(LoadProgress(s3Doc))
             ELSE Others(LoadProgress(localDoc')) = Others(LoadProgress(localDoc))]_vars

\* C24: consolidation is idempotent.  With no fault at all, a second call of
\* consolidate_year for a time-key already consolidated in this run, with the
\* same writer state, leaves the consolidated files (local and in S3) with
\* the content the first call gave them.
C24_ConsolidateIdempotent ==
    [][(/\ pc = "consolidate" /\ pc' = "consolidate"
        /\ consIdx' = consIdx
        /\ faults = 0 /\ faults' = 0)
       => (s3Cons' = s3Cons /\ localCons' = localCons)]_vars

\* C30: two drivers of the same region are not safe.  Every save replaces the
\* stored document by the saving driver's own in-memory mapping, whose entry
\* is the batch that driver has just completed, whatever the document held;
\* so the persisted checkpoint can go down, and when no fault has happened it
\* goes down only by the save of another driver than the one that saved
\* last, one that loaded its copy before that last save.  The witness is an
\* interleaving in which it does go down, without reset and without fault.
Decreases(k) == persistLog[k + 1].batch < persistLog[k].batch

WholeRewrite ==
    Len(persistLog') > Len(persistLog)
    => LET d == persistLog'[Len(persistLog')].by
       IN /\ sharedDoc' = OkDoc(drivers'[d].progress)
          /\ sharedDoc'.map[Region] = drivers[d].batch_number
          /\ drivers'[d].batch_number = drivers[d].batch_number + 1

StaleWriter ==
    faults = 0 =>
       \A k \in 1 .. (Len(persistLog) - 1) :
          Decreases(k) => /\ persistLog[k + 1].by # persistLog[k].by
                          /\ persistLog[k + 1].loadedAt < k

C30_TwoDriversUnsafe == []StaleWriter /\ [][WholeRewrite]_vars

C30_Witness ==
    /\ faults = 0
    /\ Len(persistLog) >= 2
    /\ Decreases(Len(persistLog) - 1)
    /\ sharedDoc.state = "ok"
    /\ sharedDoc.map[Region] = persistLog[Len(persistLog)].batch

\* C31: count_s3_files writes a directory's count to the cache only when
\* the directory was listed completely and without error: every line the
\* driver appends carries the count of a listing that read every page.
C31_NoPartialCount ==
    cpc # "off" =>
       \A k \in DOMAIN chist.appended :
          /\ chist.appended[k].pages = NumPages
          /\ chist.appended[k].count = NumPages
          /\ chist.appended[k].dir \notin chist.cut

\* The cache file holds a line written for the directory.
HasEntry(file, dir_path) ==
    \E i \in DOMAIN file : \E c \in 0 .. NumPages : \E r \in DOMAIN Dates :
       file[i] = FormatLine(dir_path, c, Dates[r])

ReceivedAreCached ==
    cpc = "done" =>
       \A k \in DOMAIN chist.received :
          chist.received[k][2] # None
          => FormatLine(chist.received[k][1], chist.received[k][2], Today) \in Range(cacheFile)

OnlyUncachedSubmitted ==
    cpc # "off" =>
       \A d \in chist.submitted : ~HasEntry(chist.fileAtStart, d)

\* C32: count_s3_files resumes after an interrupt.  When a run returns,
\* every count its driver received is in the cache file; and a run submits
\* for counting only directories for which the cache file held no line when
\* the run started, so a cached directory is never counted again.
C32_Resume == ReceivedAreCached /\ OnlyUncachedSubmitted

\* The merged results: the cached entries, overridden by the new counts.
MergedKeys == DictKeys(cache) \cup DictKeys(results)

MergedCount(k) == IF k \in DictKeys(results) THEN DictGet(results, k) ELSE DictGet(cache, k)

\* The file holds exactly one line per directory of the merged results.
OneEntryEach(file) ==
    /\ Len(file) = Cardinality(MergedKeys)
    /\ \A k \in MergedKeys :
          \E i \in DOMAIN file : file[i] = FormatLine(k, MergedCount(k), Today)

\* The file holds what it held at start and then every line appended.
KeepsAppended(file) ==
    file = chist.fileAtStart \o
           [k \in DOMAIN chist.appended |->
               FormatLine(chist.appended[k].dir, chist.appended[k].count, Today)]

\* C33: when count_s3_files finishes without a shutdown request the cache
\* file has been replaced, through the new file renamed over it, by exactly
\* one entry per directory of the merged results; when a shutdown was
\* requested it is not rebuilt and keeps every line appended so far.
C33_RebuildOrKeep ==
    cpc = "done" =>
       IF ~shutdown_requested
       THEN chist.rebuilt /\ newFile = << >> /\ OneEntryEach(cacheFile)
       ELSE ~chist.rebuilt /\ KeepsAppended(cacheFile)

\* C33 amended: the same, for a run that listed at least one directory, with
\* the flag as line 170 finds it; a run that lists no directory returns at
\* line 99 and leaves the cache file as it was.
C33_RebuildOrKeepAmended ==
    cpc = "done" =>
       IF chist.empty THEN ~chist.rebuilt /\ cacheFile = chist.fileAtStart
       ELSE IF ~chist.stopSeen
       THEN chist.rebuilt /\ newFile = << >> /\ OneEntryEach(cacheFile)
       ELSE ~chist.rebuilt /\ KeepsAppended(cacheFile)

C33_Witness ==
    /\ cpc = "done"
    /\ chist.rebuilt
    /\ cache # << >>
    /\ results # << >>
    /\ ~shutdown_requested

\* Every write to the cache file so far was made by the driver thread.
DriverOnlyWrites ==
    cpc # "off" => \A k \in DOMAIN chist.writers : chist.writers[k] = "driver"

\* A step that changes the cache file, other than the rename of the rebuilt
\* file, is the driver's write between its open and its close, and adds one
\* complete line for a directory of this run.
WholeLineStep ==
    (cacheFile' # cacheFile /\ cpc # "replace")
    => /\ cpc = "append"
       /\ cpc' = "check"
       /\ \E d \in chist.submitted : \E c \in 0 .. NumPages :
             cacheFile' = Append(cacheFile, FormatLine(d, c, Today))

\* C34: the cache file is written only by the driver thread; the workers
\* running process_directory never write to it, so in every interleaving of
\* the workers no two writes overlap and each appended line is one complete
\* directory:count:date entry.
C34_SingleWriter == []DriverOnlyWrites /\ [][WholeLineStep]_vars

\* The driver holds the file open for its second line while a worker is
\* still listing.
C34_Witness ==
    /\ cpc = "append"
    /\ \E d \in DOMAIN futures : futures[d].st = "running"
    /\ Len(chist.writers) >= 1

\* The URLs of the batches of the current chunk that the loop has finished.
BatchesDone ==
    IF chunkIdx \in DOMAIN url_chunks
    THEN Range(SubSeq(url_chunks[chunkIdx], 1, Min(batchAt, Len(url_chunks[chunkIdx]))))
    ELSE {}

\* Every URL of the set went through the generator; those it failed on are
\* left out, the others are items and, with ingest set, were upserted.
Handled(S) ==
    \A u \in S :
       /\ u \in DOMAIN generated
       /\ generated[u] \in {"item", "excluded"}
       /\ (u \in DOMAIN upserted) <=> (ingest /\ generated[u] = "item")

\* C35: in process_urls_batch a failure of the Item Generator on one URL does
\* not propagate: the URL is left out, every other URL of its batch is still
\* generated and, when ingest is set, upserted, and the later batches of the
\* chunk are still processed.
C35_GeneratorFailureIsolated ==
    /\ ipc # "raised_gen"
    /\ ipc \in {"trim", "batch"} => Handled(BatchesDone)
    /\ ipc = "trim" => Handled(Range(UrlBatch))
    /\ ipc = "done" /\ task_id < ListFiles => Handled(Range(page))

\* A batch of two URLs whose first failed and whose second was upserted, and
\* a later batch of the same chunk processed after it.
C35_Witness ==
    /\ ipc = "trim"
    /\ ingest
    /\ batchAt >= 2
    /\ \E u \in DOMAIN generated :
          /\ generated[u] = "excluded"
          /\ u + 1 \in DOMAIN upserted
          /\ u \in BatchesDone
          /\ u + 1 \in BatchesDone
    /\ \E u \in Range(UrlBatch) : u \in DOMAIN upserted

\* C38: post_or_put_async never raises to its caller: for every POST and PUT
\* answer and every transport error the task ends with a status code or
\* None, so asyncio.gather never re-raises and every upsert gathered in the
\* batch runs to its end.
C38_UpsertNeverRaises ==
    /\ ipc # "raised_gather"
    /\ \A u \in DOMAIN upserted : upserted[u] \in {None, 200, 201, 404}
    /\ (ipc = "trim" /\ ingest) => Range(metadata_items) \subseteq DOMAIN upserted

\* A gathered batch of two upserts: one failed, the other was stored.
C38_Witness ==
    /\ ipc = "trim"
    /\ Len(metadata_items) = 2
    /\ Range(metadata_items) \subseteq DOMAIN upserted
    /\ upserted[metadata_items[1]] = None
    /\ upserted[metadata_items[2]] \in {200, 201}

\* C37: for every page whose task id is in range, a page with no URL
\* included, ingest_coiled_async ends normally and returns the number of
\* URLs of the page, whether or not generation or upsert failed for some of
\* them: no exception of the split, the generator or an upsert leaves it,
\* and what it returns is len(all_urls).
C37_ReturnsPageSize ==
    task_id < ListFiles =>
       /\ ipc \notin {"raised_split", "raised_gen", "raised_gather"}
       /\ ipc = "done" => returned = Len(page)

RECURSIVE Flatten(_)
Flatten(chunks) == IF chunks = << >> THEN << >> ELSE chunks[1] \o Flatten(Tail(chunks))

\* The chunks, one after the other, are the list; none is empty, none is
\* longer than min(chunk_size, ceil(len(all_urls) / workers)).
PartitionsPage ==
    /\ Flatten(url_chunks) = page
    /\ \A k \in DOMAIN url_chunks :
          /\ Len(url_chunks[k]) >= 1
          /\ Len(url_chunks[k]) <= Min(chunk_size, ceil(Len(page), workers))

\* C36: ingest_coiled_async splits the URLs of a page into chunks that
\* partition the list: once the page of a task in range has been read, the
\* split has been made, every URL is in exactly one chunk, the chunks keep
\* the order of the list, every chunk is non-empty and none is larger than
\* min(chunk_size, ceil(number of URLs / workers)).
C36_ChunksPartition ==
    (task_id < ListFiles /\ ipc # "start") =>
       /\ ipc # "raised_split"
       /\ PartitionsPage

====
